---- MODULE Spec2Model ----
(***************************************************************************)
(* Model of the heartbeat monitor service: the DynamoDB monitor table, the *)
(* ingestion and management handlers of heartbeat-api, and the check cycle *)
(* of heartbeat-checker (check_monitors with TelegramClient's              *)
(* send_with_retry).  Every await on the store or on the sink is one step; *)
(* handlers and the check cycle interleave at those steps.                 *)
(***************************************************************************)
EXTENDS Integers, Sequences, FiniteSets, TLC

(* ------------------------------------------------------------------ *)
(* Bounds of the model                                                *)
(* ------------------------------------------------------------------ *)
MaxEnv == 3
MaxCycles == 2
MaxCalls == 2
Clock0 == 1000

Slugs == {"svc-a", "svc-b"}
\* the slugs each kind of request is issued for
PingSlugs == {"svc-a"}
FailSlugs == {"svc-a", "svc-b"}
ManagedSlugs == {"svc-a"}
TickDeltas == {3599, 3600}
IntervalInputs == {3599}

(* ------------------------------------------------------------------ *)
(* Program constants                                                  *)
(* ------------------------------------------------------------------ *)
REPEAT_ALERT_INTERVAL_SECS == 3600
DEFAULT_INTERVAL_SECS == 300
TTL_SECS == 7776000
MIN_INTERVAL == 30
MAX_INTERVAL == 31536000
\* the zero delay of the first attempt chained with the three retry delays (ms)
AttemptDelays == <<0, 500, 2000, 5000>>

(* ------------------------------------------------------------------ *)
(* Option<T>: None is the empty sequence, Some(x) the one-element one  *)
(* ------------------------------------------------------------------ *)
None == <<>>
Some(x) == <<x>>
IsSome(o) == o # <<>>
Unwrap(o) == o[1]
UnwrapOr(o, d) == IF o = <<>> THEN d ELSE o[1]

(* ------------------------------------------------------------------ *)
(* The table: slug -> item; an item is a map of attributes, each       *)
(* present (Some) or absent (None)                                     *)
(* ------------------------------------------------------------------ *)
EmptyItem ==
    [interval_secs |-> None, last_ping |-> None, next_due |-> None,
     check_partition |-> None, created_at |-> None, expires_at |-> None,
     last_alerted_at |-> None, alert_count |-> None, paused |-> None]

ItemOf(st, slug) == IF slug \in DOMAIN st THEN st[slug] ELSE EmptyItem

Put(st, slug, item) ==
    [s \in (DOMAIN st) \cup {slug} |-> IF s = slug THEN item ELSE st[s]]

Remove(st, slug) == [s \in (DOMAIN st) \ {slug} |-> st[s]]

\* serde_dynamo::from_item into Monitor: the fields without Option must exist
Deserializable(item) ==
    /\ IsSome(item.interval_secs)
    /\ IsSome(item.last_ping)
    /\ IsSome(item.next_due)
    /\ IsSome(item.check_partition)
    /\ IsSome(item.created_at)
    /\ IsSome(item.expires_at)

ToMonitor(slug, item) ==
    [slug |-> slug,
     interval_secs |-> Unwrap(item.interval_secs),
     last_ping |-> Unwrap(item.last_ping),
     next_due |-> Unwrap(item.next_due),
     check_partition |-> Unwrap(item.check_partition),
     last_alerted_at |-> item.last_alerted_at,
     alert_count |-> item.alert_count,
     created_at |-> Unwrap(item.created_at),
     paused |-> item.paused,
     expires_at |-> Unwrap(item.expires_at)]

\* mutant: the due test comes before the paused test
DeriveDueFirst(monitor, now_epoch) ==
    IF monitor.next_due < now_epoch THEN "Overdue"
    ELSE IF monitor.paused = Some(TRUE) THEN "Paused"
    ELSE "Ok"

\* MonitorStatus::derive
Derive(monitor, now_epoch) ==
    IF monitor.paused = Some(TRUE) THEN "Paused"
    ELSE IF monitor.next_due < now_epoch THEN "Overdue"
    ELSE "Ok"

\* mutant: created_at is set without if_not_exists
UpsertMonitorOverwriteCreated(st, monitor) ==
    Put(st, monitor.slug,
        [ItemOf(st, monitor.slug) EXCEPT
            !.interval_secs = Some(monitor.interval_secs),
            !.last_ping = Some(monitor.last_ping),
            !.next_due = Some(monitor.next_due),
            !.check_partition = Some(monitor.check_partition),
            !.expires_at = Some(monitor.expires_at),
            !.created_at = Some(monitor.created_at)])

\* mutant: the whole Monitor value replaces the item (put_item)
UpsertMonitorPutItem(st, monitor) ==
    Put(st, monitor.slug,
        [interval_secs |-> Some(monitor.interval_secs),
         last_ping |-> Some(monitor.last_ping),
         next_due |-> Some(monitor.next_due),
         check_partition |-> Some(monitor.check_partition),
         created_at |-> IF IsSome(ItemOf(st, monitor.slug).created_at)
                        THEN ItemOf(st, monitor.slug).created_at
                        ELSE Some(monitor.created_at),
         expires_at |-> Some(monitor.expires_at),
         last_alerted_at |-> monitor.last_alerted_at,
         alert_count |-> monitor.alert_count,
         paused |-> monitor.paused])

\* mutant: interval_secs is set only when the item has none
UpsertMonitorKeepInterval(st, monitor) ==
    LET old == ItemOf(st, monitor.slug)
    IN  Put(st, monitor.slug,
            [old EXCEPT !.interval_secs = IF IsSome(old.interval_secs)
                                          THEN old.interval_secs
                                          ELSE Some(monitor.interval_secs),
                        !.last_ping = Some(monitor.last_ping),
                        !.next_due = Some(monitor.next_due),
                        !.check_partition = Some(monitor.check_partition),
                        !.expires_at = Some(monitor.expires_at),
                        !.created_at = IF IsSome(old.created_at)
                                       THEN old.created_at
                                       ELSE Some(monitor.created_at)])

\* DynamoStore::upsert_monitor: one update_item, created_at only if absent
UpsertMonitor(st, monitor) ==
    LET old == ItemOf(st, monitor.slug)
    IN  Put(st, monitor.slug,
            [old EXCEPT !.interval_secs = Some(monitor.interval_secs),
                        !.last_ping = Some(monitor.last_ping),
                        !.next_due = Some(monitor.next_due),
                        !.check_partition = Some(monitor.check_partition),
                        !.expires_at = Some(monitor.expires_at),
                        !.created_at = IF IsSome(old.created_at)
                                       THEN old.created_at
                                       ELSE Some(monitor.created_at)])

\* DynamoStore::update_alert_state: update_item, creates the item if absent
UpdateAlertState(st, slug, now_epoch, count) ==
    Put(st, slug, [ItemOf(st, slug) EXCEPT !.last_alerted_at = Some(now_epoch),
                                           !.alert_count = Some(count)])

\* mutant: only last_alerted_at is removed
ClearAlertStateKeepCount(st, slug) ==
    Put(st, slug, [ItemOf(st, slug) EXCEPT !.last_alerted_at = None])

\* DynamoStore::clear_alert_state: update_item REMOVE
ClearAlertState(st, slug) ==
    Put(st, slug, [ItemOf(st, slug) EXCEPT !.last_alerted_at = None,
                                           !.alert_count = None])

\* mutant: the key condition with <= in place of <
OverdueKeysInclusive(st, now_epoch) ==
    {s \in DOMAIN st :
        /\ st[s].check_partition = Some("CHECK")
        /\ IsSome(st[s].next_due)
        /\ Unwrap(st[s].next_due) <= now_epoch}

\* DynamoStore::query_overdue: the slugs the index query matches
OverdueKeys(st, now_epoch) ==
    {s \in DOMAIN st :
        /\ st[s].check_partition = Some("CHECK")
        /\ IsSome(st[s].next_due)
        /\ Unwrap(st[s].next_due) < now_epoch}

\* DynamoStore::query_alerted: the slugs the filtered scan matches
AlertedKeys(st) == {s \in DOMAIN st : IsSome(st[s].last_alerted_at)}

\* serde_dynamo::from_items over a query result
Monitors(st, keys) == [s \in keys |-> ToMonitor(s, st[s])]
AllDeserializable(st, keys) == \A s \in keys : Deserializable(st[s])


(* ------------------------------------------------------------------ *)
(* State                                                              *)
(* ------------------------------------------------------------------ *)
VARIABLES
    clock,          \* wall clock, epoch seconds (Utc::now().timestamp())
    store,          \* the monitor table
    inflight,       \* requests whose handler has built its Monitor value and
                    \* not yet done its upsert
    pc,             \* position of check_monitors ("idle": no invocation)
    now,            \* check_monitors: the captured now
    overdue,        \* check_monitors: result of query_overdue, by slug
    alerted,        \* check_monitors: result of query_alerted, by slug
    todo,           \* slugs of the current loop not yet iterated
    overdue_slugs,  \* check_monitors: the HashSet overdue_slugs
    cur,            \* the monitor of the current iteration (Option)
    kind,           \* message being sent: "first", "repeat", "recovery"
    result,         \* outcome of the last invocation of check_monitors
    log,            \* sends and alert-state writes of the current invocation
    unpaused,       \* slugs seen without paused = true in the table at some
                    \* moment of the current invocation
    delivered,      \* per slug: cycle times of the alerts delivered since its
                    \* last delivered recovery (the last two)
    envSteps,       \* requests and clock advances so far (bounded by MaxEnv)
    cycles,         \* invocations of check_monitors so far (MaxCycles)
    response,       \* the last response of a handler (Option): the
                    \* error, if any, and the HTTP status
    \* one call of send_with_retry, attempt by attempt
    rpc,            \* position in send_with_retry ("idle": no call)
    sink,           \* what the sink answers to attempts 1, 2, ...
    attempt,        \* the attempt of the current iteration, from 1
    last_err,       \* send_with_retry: last_err (the attempt it came from)
    trace,          \* the sleeps and attempts of the call, in order
    ret,            \* what the call returned (Option)
    calls,          \* calls of send_with_retry so far (MaxCalls)
    \* one evaluation of MonitorStatus::derive
    derive_in,      \* its arguments (Option)
    derive_out,     \* its result (Option)
    \* one call of Slug::new and the way back through String
    slug_in,        \* the string passed to Slug::new (Option)
    slug_out,       \* its result (Option)
    slug_back,      \* Slug::try_from(String::from(slug)) when the result
                    \* was Ok (Option)
    \* one call of escape_around_code_spans
    text_in,        \* its argument (Option)
    text_out        \* its result (Option)

cycleVars == <<pc, now, overdue, alerted, todo, overdue_slugs, cur, kind,
               result, log, delivered, cycles>>

\* the slugs whose item does not carry paused = true (or that have no item)
NotPaused(st) ==
    {s \in Slugs : s \notin DOMAIN st \/ st[s].paused # Some(TRUE)}

\* unpaused after a step of a handler that leaves the table as st
SeenUnpaused(st) ==
    IF pc \in {"idle", "done"} THEN unpaused ELSE unpaused \cup NotPaused(st)
mainVars == <<clock, store, inflight, pc, now, overdue, alerted, todo,
              overdue_slugs, cur, kind, result, log, unpaused,
              delivered, envSteps, cycles, response>>
retryVars == <<rpc, sink, attempt, last_err, trace, ret, calls>>
deriveVars == <<derive_in, derive_out>>
slugVars == <<slug_in, slug_out, slug_back>>
textVars == <<text_in, text_out>>
auxVars == <<retryVars, deriveVars, slugVars, textVars>>
vars == <<mainVars, retryVars, deriveVars, slugVars, textVars>>

\* everything but the table: no request, no invocation, no call under way
InitRest ==
    /\ clock = Clock0
    /\ inflight = {}
    /\ pc = "idle"
    /\ now = 0
    /\ overdue = <<>>
    /\ alerted = <<>>
    /\ todo = {}
    /\ overdue_slugs = {}
    /\ cur = None
    /\ kind = "none"
    /\ result = "none"
    /\ log = <<>>
    /\ unpaused = {}
    /\ delivered = [s \in Slugs |-> <<>>]
    /\ envSteps = 0
    /\ cycles = 0
    /\ response = None
    /\ rpc = "idle"
    /\ sink = <<>>
    /\ attempt = 0
    /\ last_err = None
    /\ trace = <<>>
    /\ ret = None
    /\ calls = 0
    /\ derive_in = None
    /\ derive_out = None
    /\ slug_in = None
    /\ slug_out = None
    /\ slug_back = None
    /\ text_in = None
    /\ text_out = None

\* the service starts on an empty table
Init ==
    /\ store = <<>>
    /\ InitRest

(* ------------------------------------------------------------------ *)
(* Time                                                               *)
(* ------------------------------------------------------------------ *)
\* the clock advances by about an hour: longer than any request or any
\* invocation of the checker lasts, so none is under way
Tick ==
    /\ envSteps < MaxEnv
    /\ pc = "idle"
    /\ inflight = {}
    /\ \E d \in TickDeltas : clock' = clock + d
    /\ envSteps' = envSteps + 1
    /\ UNCHANGED <<store, inflight>>
    /\ UNCHANGED unpaused
    /\ UNCHANGED cycleVars
    /\ UNCHANGED <<response, auxVars>>

(* ------------------------------------------------------------------ *)
(* heartbeat-api: ingestion handlers                                  *)
(* ------------------------------------------------------------------ *)
\* impl From<CoreError> for ApiError, the one routes.rs imports
FromCoreError(err) == "Internal"

\* impl IntoResponse for ApiError: the status code
StatusOf(api_err) ==
    CASE api_err = "Unauthorized" -> 401
      [] api_err = "InvalidSlug" -> 400
      [] api_err = "InvalidInterval" -> 400
      [] api_err = "Internal" -> 500

\* std::time::Duration: whole seconds and the nanoseconds beyond them
Duration(secs, nanos) == [secs |-> secs, nanos |-> nanos]
FromSecs(secs) == Duration(secs, 0)
AsSecs(d) == d.secs
DurationLt(a, b) ==
    \/ a.secs < b.secs
    \/ a.secs = b.secs /\ a.nanos < b.nanos

\* what parse_interval made of ?interval, or None without ?interval
QueryInputs == {None} \cup {Some(FromSecs(i)) : i \in IntervalInputs}

\* mutant: only the lower bound is tested
IntervalInBoundsNoMax(d) == ~DurationLt(d, FromSecs(MIN_INTERVAL))

\* heartbeat_handler, the interval bounds check
IntervalInBounds(d) ==
    /\ ~DurationLt(d, FromSecs(MIN_INTERVAL))
    /\ ~DurationLt(FromSecs(MAX_INTERVAL), d)

\* get_monitor as the handlers use it: "err", or the interval to store
ExistingInterval(st, slug) ==
    IF slug \notin DOMAIN st THEN Some(DEFAULT_INTERVAL_SECS)
    ELSE IF ~Deserializable(st[slug]) THEN None
    ELSE st[slug].interval_secs

\* mutant: next_due without the interval
PingMonitorDueNow(slug, interval_secs, t) ==
    [slug |-> slug, interval_secs |-> interval_secs, last_ping |-> t,
     next_due |-> t, check_partition |-> "CHECK",
     last_alerted_at |-> None, alert_count |-> None, created_at |-> t,
     paused |-> None, expires_at |-> t + TTL_SECS]

\* the Monitor value heartbeat_handler builds
PingMonitor(slug, interval_secs, t) ==
    [slug |-> slug, interval_secs |-> interval_secs, last_ping |-> t,
     next_due |-> t + interval_secs, check_partition |-> "CHECK",
     last_alerted_at |-> None, alert_count |-> None, created_at |-> t,
     paused |-> None, expires_at |-> t + TTL_SECS]

\* the Monitor value fail_handler builds
FailMonitor(slug, interval_secs, t) ==
    [slug |-> slug, interval_secs |-> interval_secs, last_ping |-> t,
     next_due |-> 0, check_partition |-> "CHECK",
     last_alerted_at |-> None, alert_count |-> None, created_at |-> t,
     paused |-> None, expires_at |-> t + TTL_SECS]

\* a request between the construction of its Monitor and its upsert;
\* with_interval: the request carried ?interval
Request(handler, with_interval, monitor) ==
    [handler |-> handler, with_interval |-> with_interval,
     monitor |-> monitor]

\* the response that ends a request with the error err
ErrorResponse(err) ==
    [err |-> err,
     status |-> StatusOf(IF err = "InvalidInterval" THEN err
                         ELSE FromCoreError(err))]

\* heartbeat_handler up to the upsert, ?interval drawn from inputs: the
\* interval from the query or from get_monitor, then the Monitor value; an
\* error response ends the request
HeartbeatRequest(inputs) ==
    /\ envSteps < MaxEnv
    /\ \E slug \in PingSlugs, q \in inputs :
        LET iv == IF IsSome(q)
                  THEN (IF IntervalInBounds(Unwrap(q))
                        THEN Some(AsSecs(Unwrap(q))) ELSE None)
                  ELSE ExistingInterval(store, slug)
            err == IF IsSome(q) THEN "InvalidInterval" ELSE "SerdeDynamo"
        IN  /\ inflight' = IF IsSome(iv)
                           THEN inflight \cup {Request("heartbeat", IsSome(q),
                                    PingMonitor(slug, Unwrap(iv), clock))}
                           ELSE inflight
            /\ response' = IF IsSome(iv) THEN response
                           ELSE Some(ErrorResponse(err))
    /\ envSteps' = envSteps + 1
    /\ UNCHANGED <<clock, store>>
    /\ UNCHANGED unpaused
    /\ UNCHANGED cycleVars
    /\ UNCHANGED auxVars

HeartbeatBegin == HeartbeatRequest(QueryInputs)

\* fail_handler up to the upsert, for a slug among slugs
FailRequest(slugs) ==
    /\ envSteps < MaxEnv
    /\ \E slug \in slugs :
        LET iv == ExistingInterval(store, slug)
        IN  /\ inflight' = IF IsSome(iv)
                           THEN inflight \cup {Request("fail", FALSE,
                                    FailMonitor(slug, Unwrap(iv), clock))}
                           ELSE inflight
            /\ response' = IF IsSome(iv) THEN response
                           ELSE Some(ErrorResponse("SerdeDynamo"))
    /\ envSteps' = envSteps + 1
    /\ UNCHANGED <<clock, store>>
    /\ UNCHANGED unpaused
    /\ UNCHANGED cycleVars
    /\ UNCHANGED auxVars

FailBegin == FailRequest(FailSlugs)

\* Json(HeartbeatResponse { ok: true, .. status }) and Json(FailResponse
\* { ok: true, status }) for the request of monitor: the status is derived
\* from the Monitor value the handler built, at the handler's now
IngestResponse(monitor) ==
    [err |-> "none", status |-> 200, slug |-> monitor.slug,
     monitor_status |-> Derive(monitor, monitor.last_ping)]

\* the handlers' upsert_monitor call and their response; ok = FALSE is a
\* store error
UpsertFinish ==
    /\ \E r \in inflight, ok \in BOOLEAN :
        /\ store' = IF ok THEN UpsertMonitor(store, r.monitor) ELSE store
        /\ response' = IF ok THEN Some(IngestResponse(r.monitor))
                       ELSE Some(ErrorResponse("DynamoSdk"))
        /\ inflight' = inflight \ {r}
    /\ UNCHANGED <<clock, envSteps>>
    /\ unpaused' = SeenUnpaused(store')
    /\ UNCHANGED cycleVars
    /\ UNCHANGED auxVars

(* ------------------------------------------------------------------ *)
(* heartbeat-api: management handlers                                 *)
(* ------------------------------------------------------------------ *)
\* DynamoStore::set_paused: NotFound when the slug has no item
SetPaused(st, slug, flag) ==
    IF slug \in DOMAIN st
    THEN Put(st, slug, [st[slug] EXCEPT !.paused = Some(flag)])
    ELSE st

\* DynamoStore::delete_monitor: NotFound when the slug has no item
DeleteMonitor(st, slug) == IF slug \in DOMAIN st THEN Remove(st, slug) ELSE st

\* what the store call of a management handler returns: "none" for Ok(()),
\* else the CoreError (store_ok = FALSE: the request to the table failed)
ManageOutcome(st, slug, store_ok) ==
    IF ~store_ok THEN "DynamoSdk"
    ELSE IF slug \notin DOMAIN st THEN "NotFound"
    ELSE "none"

\* `store call .await?; Ok(StatusCode::NO_CONTENT)`
ManageResponse(err) ==
    [err |-> err,
     status |-> IF err = "none" THEN 204 ELSE StatusOf(FromCoreError(err))]

\* mutant: pause also clears the alert state, as the handler's comment says
PauseHandlerClearing ==
    /\ envSteps < MaxEnv
    /\ \E slug \in ManagedSlugs, store_ok \in BOOLEAN :
        LET err == ManageOutcome(store, slug, store_ok)
        IN  /\ store' = IF err = "none"
                        THEN ClearAlertState(SetPaused(store, slug, TRUE), slug)
                        ELSE store
            /\ response' = Some(ManageResponse(err))
    /\ envSteps' = envSteps + 1
    /\ UNCHANGED <<clock, inflight>>
    /\ unpaused' = SeenUnpaused(store')
    /\ UNCHANGED cycleVars
    /\ UNCHANGED auxVars

\* pause_handler: set_paused(&slug, true)
PauseHandler ==
    /\ envSteps < MaxEnv
    /\ \E slug \in ManagedSlugs, store_ok \in BOOLEAN :
        LET err == ManageOutcome(store, slug, store_ok)
        IN  /\ store' = IF err = "none" THEN SetPaused(store, slug, TRUE)
                        ELSE store
            /\ response' = Some(ManageResponse(err))
    /\ envSteps' = envSteps + 1
    /\ UNCHANGED <<clock, inflight>>
    /\ unpaused' = SeenUnpaused(store')
    /\ UNCHANGED cycleVars
    /\ UNCHANGED auxVars

UnpauseHandler ==
    /\ envSteps < MaxEnv
    /\ \E slug \in ManagedSlugs, store_ok \in BOOLEAN :
        LET err == ManageOutcome(store, slug, store_ok)
        IN  /\ store' = IF err = "none" THEN SetPaused(store, slug, FALSE)
                        ELSE store
            /\ response' = Some(ManageResponse(err))
    /\ envSteps' = envSteps + 1
    /\ UNCHANGED <<clock, inflight>>
    /\ unpaused' = SeenUnpaused(store')
    /\ UNCHANGED cycleVars
    /\ UNCHANGED auxVars

DeleteMonitorHandler ==
    /\ envSteps < MaxEnv
    /\ \E slug \in ManagedSlugs, store_ok \in BOOLEAN :
        LET err == ManageOutcome(store, slug, store_ok)
        IN  /\ store' = IF err = "none" THEN DeleteMonitor(store, slug)
                        ELSE store
            /\ response' = Some(ManageResponse(err))
    /\ envSteps' = envSteps + 1
    /\ UNCHANGED <<clock, inflight>>
    /\ unpaused' = SeenUnpaused(store')
    /\ UNCHANGED cycleVars
    /\ UNCHANGED auxVars


(* ------------------------------------------------------------------ *)
(* heartbeat-checker: check_monitors                                  *)
(* ------------------------------------------------------------------ *)
\* secs: the duration put into the message
SendEvent(slug, k, ok, secs) ==
    [ev |-> "send", slug |-> slug, kind |-> k, ok |-> ok, at |-> 0,
     count |-> 0, secs |-> secs]
WriteEvent(slug, k, at, count) ==
    [ev |-> "write", slug |-> slug, kind |-> k, ok |-> TRUE, at |-> at,
     count |-> count, secs |-> 0]
\* a store call of the invocation returned Err (op: the call or, for an
\* alert-state write, the kind of message it follows)
StoreErrEvent(slug, op) ==
    [ev |-> "store_err", slug |-> slug, kind |-> op, ok |-> FALSE, at |-> 0,
     count |-> 0, secs |-> 0]

\* i64::max
Max(a, b) == IF a >= b THEN a ELSE b

\* format_overdue: `late`, the time past next_due as the message gives it
LateSecs(monitor, now_epoch) ==
    Max((now_epoch - monitor.last_ping) - monitor.interval_secs, 0)

\* `(now - monitor.next_due).max(0) as u64`
TotalDowntime(monitor, now_epoch) == Max(now_epoch - monitor.next_due, 0)

\* `(now - last_alert).max(0) as u64`
RecoveryDowntime(monitor, now_epoch) ==
    Max(now_epoch - Unwrap(monitor.last_alerted_at), 0)

\* the duration in the message of kind k for monitor
MessageSecs(monitor, k, now_epoch) ==
    IF k = "repeat" THEN TotalDowntime(monitor, now_epoch)
    ELSE IF k = "recovery" THEN RecoveryDowntime(monitor, now_epoch)
    ELSE LateSecs(monitor, now_epoch)

\* mutant: the repeat test with > in place of >=
OverdueActionStrict(monitor, now_epoch) ==
    IF Derive(monitor, now_epoch) = "Paused" THEN "skip"
    ELSE IF monitor.last_alerted_at = None THEN "first"
    ELSE IF now_epoch - Unwrap(monitor.last_alerted_at)
                > REPEAT_ALERT_INTERVAL_SECS THEN "repeat"
    ELSE "none"

\* mutant: the first loop without its paused check
OverdueActionNoPause(monitor, now_epoch) ==
    IF monitor.last_alerted_at = None THEN "first"
    ELSE IF now_epoch - Unwrap(monitor.last_alerted_at)
                >= REPEAT_ALERT_INTERVAL_SECS THEN "repeat"
    ELSE "none"

\* first loop, one monitor: "skip" (paused), "first", "repeat" or "none"
OverdueAction(monitor, now_epoch) ==
    IF Derive(monitor, now_epoch) = "Paused" THEN "skip"
    ELSE IF monitor.last_alerted_at = None THEN "first"
    ELSE IF now_epoch - Unwrap(monitor.last_alerted_at)
                >= REPEAT_ALERT_INTERVAL_SECS THEN "repeat"
    ELSE "none"

\* mutant: the slug is never inserted into overdue_slugs
MarkOverdueNever(slugs, monitor, now_epoch) == slugs

\* first loop: overdue_slugs after the iteration over monitor
MarkOverdue(slugs, monitor, now_epoch) ==
    IF Derive(monitor, now_epoch) = "Paused" THEN slugs
    ELSE slugs \cup {monitor.slug}

\* second loop, one monitor: "skip" or "recovery"
RecoveryAction(monitor, now_epoch, slugs) ==
    IF monitor.slug \in slugs THEN "skip"
    ELSE IF Derive(monitor, now_epoch) = "Paused" THEN "skip"
    ELSE IF IsSome(monitor.last_alerted_at) THEN "recovery"
    ELSE "skip"

\* mutant: every alert is written as the first one
NextAlertCountReset(monitor) == 1

\* mutant: the count is passed on without the increment
NextAlertCountSame(monitor) == UnwrapOr(monitor.alert_count, 0)

\* the count passed to update_alert_state
NextAlertCount(monitor) == UnwrapOr(monitor.alert_count, 0) + 1

\* mutant: a delivered recovery is followed by update_alert_state too
AlertWriteAlwaysUpdate(st, monitor, k, now_epoch) ==
    UpdateAlertState(st, monitor.slug, now_epoch, NextAlertCount(monitor))

\* the store call that follows a delivered message of kind k
AlertWrite(st, monitor, k, now_epoch) ==
    IF k = "recovery" THEN ClearAlertState(st, monitor.slug)
    ELSE UpdateAlertState(st, monitor.slug, now_epoch, NextAlertCount(monitor))

\* the loop a message of kind k is sent from
LoopOf(k) == IF k = "recovery" THEN "recovery_loop" ELSE "overdue_loop"

\* what the sink answers to the successive attempts of one call
SinkScripts == [1..Len(AttemptDelays) -> BOOLEAN]

\* send_with_retry from attempt n on: the result, the attempts made (up to
\* and including n's successors) and the delays slept before the retries
RECURSIVE SendFrom(_, _, _)
SendFrom(script, n, waits) ==
    IF n > Len(AttemptDelays)
    THEN [ok |-> FALSE, attempts |-> n - 1, waits |-> waits]
    ELSE LET slept == IF n > 1 THEN Append(waits, AttemptDelays[n]) ELSE waits
         IN  IF script[n]
             THEN [ok |-> TRUE, attempts |-> n, waits |-> slept]
             ELSE SendFrom(script, n + 1, slept)

\* TelegramClient::send_with_retry
SendWithRetry(script) == SendFrom(script, 1, <<>>)

\* mutant: the Err arm writes the alert state as the Ok arm does
AfterSendAlwaysWrite(delivery_ok, k) == "write"

\* mutant: the delivery error is returned with `?`
AfterSendReturnErr(delivery_ok, k) ==
    IF delivery_ok THEN "write" ELSE "return_err"

\* mutant: the Ok arm goes on without update_alert_state / clear_alert_state
AfterSendNoWrite(delivery_ok, k) == LoopOf(k)

\* check_monitors after send_with_retry returned: Ok arm or Err arm
AfterSend(delivery_ok, k) == IF delivery_ok THEN "write" ELSE LoopOf(k)

\* mutant: the error of a store call is dropped and the cycle goes on
AfterStoreSwallow(store_ok, next) == next

\* `.await?` on a store call: go on to next, or return the error
AfterStore(store_ok, next) == IF store_ok THEN next ELSE "return_err"

\* alerts delivered for a slug since its last delivered recovery
Delivered(hist, k, now_epoch) ==
    IF k = "recovery" THEN <<>>
    ELSE IF hist = <<>> THEN <<now_epoch>>
    ELSE <<hist[Len(hist)], now_epoch>>

\* check_monitors is entered: `let now = Utc::now().timestamp()`
StartCycle ==
    /\ pc = "idle"
    /\ now' = clock
    /\ pc' = "query_overdue"
    /\ unpaused' = NotPaused(store)
    /\ UNCHANGED <<overdue, alerted, todo, overdue_slugs, cur, kind,
                   result, log, delivered>>
    /\ UNCHANGED <<clock, store, inflight, envSteps>>
    /\ UNCHANGED <<response, auxVars>>

\* the trigger invokes the checker, MaxCycles times at most
CycleStart ==
    /\ cycles < MaxCycles
    /\ cycles' = cycles + 1
    /\ StartCycle

\* check_monitors returns, or its invocation is cut off
Return(outcome) ==
    /\ pc' = "done"
    /\ result' = outcome
    /\ UNCHANGED <<now, overdue, alerted, todo, overdue_slugs, cur, kind>>

QueryOverdue ==
    /\ pc = "query_overdue"
    /\ \E ok \in BOOLEAN :
        LET keys == OverdueKeys(store, now)
            good == ok /\ AllDeserializable(store, keys)
            next == AfterStore(good, "query_alerted")
        IN  /\ log' = IF good THEN log
                      ELSE Append(log, StoreErrEvent("", "query_overdue"))
            /\ IF next = "return_err"
               THEN Return("core_err")
               ELSE /\ overdue' = IF good THEN Monitors(store, keys) ELSE <<>>
                    /\ pc' = next
                    /\ UNCHANGED <<now, alerted, todo, overdue_slugs, cur,
                                   kind, result>>
    /\ UNCHANGED <<delivered, cycles>>
    /\ UNCHANGED unpaused
    /\ UNCHANGED <<clock, store, inflight, envSteps>>
    /\ UNCHANGED <<response, auxVars>>

QueryAlerted ==
    /\ pc = "query_alerted"
    /\ \E ok \in BOOLEAN :
        LET keys == AlertedKeys(store)
            good == ok /\ AllDeserializable(store, keys)
            next == AfterStore(good, "overdue_loop")
        IN  /\ log' = IF good THEN log
                      ELSE Append(log, StoreErrEvent("", "query_alerted"))
            /\ IF next = "return_err"
               THEN Return("core_err")
               ELSE /\ alerted' = IF good THEN Monitors(store, keys) ELSE <<>>
                    /\ pc' = next
                    /\ todo' = DOMAIN overdue
                    /\ UNCHANGED <<now, overdue, overdue_slugs, cur, kind,
                                   result>>
    /\ UNCHANGED <<delivered, cycles>>
    /\ UNCHANGED unpaused
    /\ UNCHANGED <<clock, store, inflight, envSteps>>
    /\ UNCHANGED <<response, auxVars>>

\* one iteration of `for monitor in &overdue`, up to its first await
OverdueIter ==
    /\ pc = "overdue_loop"
    /\ \E s \in todo :
        LET monitor == overdue[s]
            act == OverdueAction(monitor, now)
        IN  /\ todo' = todo \ {s}
            /\ overdue_slugs' = MarkOverdue(overdue_slugs, monitor, now)
            /\ IF act \in {"first", "repeat"}
               THEN /\ cur' = Some(monitor)
                    /\ kind' = act
                    /\ pc' = "send"
               ELSE UNCHANGED <<cur, kind, pc>>
    /\ UNCHANGED <<now, overdue, alerted, result, log, delivered, cycles>>
    /\ UNCHANGED unpaused
    /\ UNCHANGED <<clock, store, inflight, envSteps>>
    /\ UNCHANGED <<response, auxVars>>

\* the first loop is exhausted
OverdueDone ==
    /\ pc = "overdue_loop"
    /\ todo = {}
    /\ pc' = "recovery_loop"
    /\ todo' = DOMAIN alerted
    /\ UNCHANGED <<now, overdue, alerted, overdue_slugs, cur, kind,
                   result, log, delivered, cycles>>
    /\ UNCHANGED unpaused
    /\ UNCHANGED <<clock, store, inflight, envSteps>>
    /\ UNCHANGED <<response, auxVars>>

\* one iteration of `for monitor in &alerted`, up to its first await
RecoveryIter ==
    /\ pc = "recovery_loop"
    /\ \E s \in todo :
        LET monitor == alerted[s]
            act == RecoveryAction(monitor, now, overdue_slugs)
        IN  /\ todo' = todo \ {s}
            /\ IF act = "recovery"
               THEN /\ cur' = Some(monitor)
                    /\ kind' = act
                    /\ pc' = "send"
               ELSE UNCHANGED <<cur, kind, pc>>
    /\ UNCHANGED <<now, overdue, alerted, overdue_slugs, result, log,
                   delivered, cycles>>
    /\ UNCHANGED unpaused
    /\ UNCHANGED <<clock, store, inflight, envSteps>>
    /\ UNCHANGED <<response, auxVars>>

\* the second loop is exhausted: "check cycle complete", Ok(())
CycleComplete ==
    /\ pc = "recovery_loop"
    /\ todo = {}
    /\ Return("ok")
    /\ UNCHANGED <<log, delivered, cycles>>
    /\ UNCHANGED unpaused
    /\ UNCHANGED <<clock, store, inflight, envSteps>>
    /\ UNCHANGED <<response, auxVars>>

\* the match on the result of send_with_retry(&msg).await
SendResult(delivery_ok) ==
    LET monitor == Unwrap(cur)
        next == AfterSend(delivery_ok, kind)
    IN  /\ log' = Append(log, SendEvent(monitor.slug, kind, delivery_ok,
                                         MessageSecs(monitor, kind, now)))
        /\ delivered' = IF delivery_ok
                        THEN [delivered EXCEPT ![monitor.slug] =
                                  Delivered(@, kind, now)]
                        ELSE delivered
        /\ IF next = "write"
           THEN /\ pc' = next
                /\ UNCHANGED <<cur, kind, result>>
           ELSE IF next = "return_err"
           THEN /\ pc' = "done"
                /\ result' = "telegram_err"
                /\ UNCHANGED <<cur, kind>>
           ELSE /\ pc' = next
                /\ cur' = None
                /\ kind' = "none"
                /\ UNCHANGED result
        /\ UNCHANGED <<now, overdue, alerted, todo, overdue_slugs, cycles>>
        /\ UNCHANGED unpaused
        /\ UNCHANGED <<clock, store, inflight, envSteps>>
        /\ UNCHANGED response

\* send_with_retry(&msg).await with the match on its result
SendMessage ==
    /\ pc = "send"
    /\ \E script \in SinkScripts : SendResult(SendWithRetry(script).ok)
    /\ UNCHANGED auxVars

\* update_alert_state / clear_alert_state after a delivery; ok = FALSE is
\* a store error, which `?` returns from check_monitors
WriteAlertState ==
    /\ pc = "write"
    /\ \E ok \in BOOLEAN :
        LET monitor == Unwrap(cur)
            next == AfterStore(ok, LoopOf(kind))
        IN  /\ store' = IF ok THEN AlertWrite(store, monitor, kind, now)
                        ELSE store
            /\ log' = Append(log,
                         IF ok
                         THEN WriteEvent(monitor.slug, kind, now,
                                         IF kind = "recovery" THEN 0
                                         ELSE NextAlertCount(monitor))
                         ELSE StoreErrEvent(monitor.slug, kind))
            /\ IF next = "return_err"
               THEN Return("core_err")
               ELSE /\ pc' = next
                    /\ cur' = None
                    /\ kind' = "none"
                    /\ UNCHANGED <<now, overdue, alerted, todo, overdue_slugs,
                                   result>>
    /\ unpaused' = unpaused \cup NotPaused(store')
    /\ UNCHANGED <<delivered, cycles>>
    /\ UNCHANGED <<clock, inflight, envSteps>>
    /\ UNCHANGED <<response, auxVars>>

\* the invocation is cut off by the trigger's time budget
CycleCancel ==
    /\ pc \notin {"idle", "done"}
    /\ Return("cancelled")
    /\ UNCHANGED <<log, delivered, cycles>>
    /\ UNCHANGED unpaused
    /\ UNCHANGED <<clock, store, inflight, envSteps>>
    /\ UNCHANGED <<response, auxVars>>

\* the runtime hands the invocation's result to the trigger; nothing of the
\* invocation is kept
InvocationEnd ==
    /\ pc = "done"
    /\ pc' = "idle"
    /\ result' = "none"
    /\ log' = <<>>
    /\ now' = 0
    /\ overdue' = <<>>
    /\ alerted' = <<>>
    /\ todo' = {}
    /\ overdue_slugs' = {}
    /\ cur' = None
    /\ kind' = "none"
    /\ unpaused' = {}
    /\ UNCHANGED <<delivered, cycles>>
    /\ UNCHANGED <<clock, store, inflight, envSteps>>
    /\ UNCHANGED <<response, auxVars>>

(* ------------------------------------------------------------------ *)
(* Specification                                                      *)
(* ------------------------------------------------------------------ *)
Next ==
    \/ Tick
    \/ HeartbeatBegin
    \/ FailBegin
    \/ UpsertFinish
    \/ PauseHandler
    \/ UnpauseHandler
    \/ DeleteMonitorHandler
    \/ CycleStart
    \/ QueryOverdue
    \/ QueryAlerted
    \/ OverdueIter
    \/ OverdueDone
    \/ RecoveryIter
    \/ CycleComplete
    \/ SendMessage
    \/ WriteAlertState
    \/ CycleCancel
    \/ InvocationEnd

Spec == Init /\ [][Next]_vars

\* the system when no monitor is ever deleted
NextNoDelete ==
    \/ Tick
    \/ HeartbeatBegin
    \/ FailBegin
    \/ UpsertFinish
    \/ PauseHandler
    \/ UnpauseHandler
    \/ CycleStart
    \/ QueryOverdue
    \/ QueryAlerted
    \/ OverdueIter
    \/ OverdueDone
    \/ RecoveryIter
    \/ CycleComplete
    \/ SendMessage
    \/ WriteAlertState
    \/ CycleCancel
    \/ InvocationEnd

SpecNoDelete == Init /\ [][NextNoDelete]_vars

(* ------------------------------------------------------------------ *)
(* heartbeat-api on its own, on a table with history                  *)
(* ------------------------------------------------------------------ *)
\* tables left by earlier requests and invocations: empty; a monitor created
\* by a fail call an hour ago; the same after its first alert; the same
\* paused by the operator
SeedCreated ==
    UpsertMonitor(<<>>, FailMonitor("svc-a", DEFAULT_INTERVAL_SECS,
                                    Clock0 - REPEAT_ALERT_INTERVAL_SECS))
SeedAlerted ==
    UpdateAlertState(SeedCreated, "svc-a",
                     Clock0 - REPEAT_ALERT_INTERVAL_SECS, 1)
SeedPaused == SetPaused(SeedAlerted, "svc-a", TRUE)
SeedStores == {<<>>, SeedCreated, SeedAlerted, SeedPaused}

InitApi ==
    /\ store \in SeedStores
    /\ InitRest

NextApi ==
    \/ Tick
    \/ HeartbeatBegin
    \/ FailBegin
    \/ UpsertFinish
    \/ PauseHandler
    \/ UnpauseHandler
    \/ DeleteMonitorHandler

SpecApi == InitApi /\ [][NextApi]_vars

(* ------------------------------------------------------------------ *)
(* The ingestion handlers with intervals around the bounds            *)
(* ------------------------------------------------------------------ *)
\* parsed ?interval values: just below, at and just above each bound
BoundaryDurations ==
    {Duration(MIN_INTERVAL - 1, 999999999), FromSecs(MIN_INTERVAL),
     Duration(MIN_INTERVAL, 500000000), FromSecs(MAX_INTERVAL),
     Duration(MAX_INTERVAL, 1), FromSecs(MAX_INTERVAL + 1)}
BoundaryInputs == {None} \cup {Some(d) : d \in BoundaryDurations}

HeartbeatBoundary == HeartbeatRequest(BoundaryInputs)

NextIngest ==
    \/ Tick
    \/ HeartbeatBoundary
    \/ FailBegin
    \/ UpsertFinish

SpecIngest == InitApi /\ [][NextIngest]_vars

(* ------------------------------------------------------------------ *)
(* query_overdue on the tables the handlers produce                   *)
(* ------------------------------------------------------------------ *)
\* the handlers of heartbeat-api and invocations of the checker up to the
\* return of query_overdue, after which they are cut off
NextQuery ==
    \/ Tick
    \/ HeartbeatBegin
    \/ FailBegin
    \/ UpsertFinish
    \/ PauseHandler
    \/ UnpauseHandler
    \/ DeleteMonitorHandler
    \/ CycleStart
    \/ QueryOverdue
    \/ CycleCancel
    \/ InvocationEnd

SpecQuery == InitApi /\ [][NextQuery]_vars

(* ------------------------------------------------------------------ *)
(* The service under a trigger that never stops                       *)
(* ------------------------------------------------------------------ *)
\* the trigger invokes the checker again and again; the invocations are not
\* counted
CycleTrigger ==
    /\ UNCHANGED cycles
    /\ StartCycle

\* fail calls for the monitor that is pinged
FailPinged == FailRequest(PingSlugs)

\* pings and fail calls for one monitor and the passing of time, with every
\* invocation running to its return
NextLive ==
    \/ Tick
    \/ HeartbeatBegin
    \/ FailPinged
    \/ UpsertFinish
    \/ CycleTrigger
    \/ QueryOverdue
    \/ QueryAlerted
    \/ OverdueIter
    \/ OverdueDone
    \/ RecoveryIter
    \/ CycleComplete
    \/ SendMessage
    \/ WriteAlertState
    \/ InvocationEnd

\* the trigger keeps firing and the checker keeps running (weak fairness of
\* its steps); the store answers and the sink accepts a message again and
\* again, though not every time (strong fairness of the successful outcome)
FairLive ==
    /\ WF_vars(CycleTrigger)
    /\ WF_vars(OverdueIter)
    /\ WF_vars(OverdueDone)
    /\ WF_vars(RecoveryIter)
    /\ WF_vars(CycleComplete)
    /\ WF_vars(InvocationEnd)
    /\ SF_vars(QueryOverdue /\ pc' = "query_alerted")
    /\ SF_vars(QueryAlerted /\ pc' = "overdue_loop")
    /\ SF_vars(SendMessage /\ pc' = "write")
    /\ SF_vars(WriteAlertState /\ pc' # "done")

SpecLive == Init /\ [][NextLive]_vars /\ FairLive

(* ------------------------------------------------------------------ *)
(* TelegramClient::send_with_retry, attempt by attempt                *)
(* ------------------------------------------------------------------ *)
SleepEvent(ms) == [ev |-> "sleep", n |-> 0, ms |-> ms, ok |-> FALSE]
AttemptEvent(n, ok) == [ev |-> "attempt", n |-> n, ms |-> 0, ok |-> ok]

\* mutant: the delay is slept before the first attempt too
DelayBeforeAlways(n) == Some(AttemptDelays[n])

\* `if attempt > 0 { sleep(*delay) }`: the delay slept before attempt n
DelayBefore(n) == IF n > 1 THEN Some(AttemptDelays[n]) ELSE None

\* mutant: only the first error is kept
KeepErrFirst(prev, n) == IF prev = None THEN Some(n) ELSE prev

\* `last_err = Some(e)` with the error of attempt n
KeepErr(prev, n) == Some(n)

\* mutant: a successful attempt after a retry does not return
AfterAttemptOnlyFirst(n, ok) == ok /\ n = 1

\* `Ok(()) => return Ok(())`: the call returns after attempt n
AfterAttempt(n, ok) == ok

RetOk == [ok |-> TRUE, err |-> 0]
RetErr(n) == [ok |-> FALSE, err |-> n]

\* send_with_retry is called; the sink's answers are fixed for the call
RetryCall ==
    /\ rpc = "idle"
    /\ calls < MaxCalls
    /\ calls' = calls + 1
    /\ sink' \in SinkScripts
    /\ attempt' = 1
    /\ rpc' = "iter"
    /\ UNCHANGED <<last_err, trace, ret>>
    /\ UNCHANGED <<mainVars, deriveVars, slugVars, textVars>>

\* the head of one iteration: the sleep before a retry
RetryIter ==
    /\ rpc = "iter"
    /\ attempt <= Len(AttemptDelays)
    /\ trace' = IF IsSome(DelayBefore(attempt))
                THEN Append(trace, SleepEvent(Unwrap(DelayBefore(attempt))))
                ELSE trace
    /\ rpc' = "send"
    /\ UNCHANGED <<sink, attempt, last_err, ret, calls>>
    /\ UNCHANGED <<mainVars, deriveVars, slugVars, textVars>>

\* send_message(text).await and the match on its result
RetrySend ==
    /\ rpc = "send"
    /\ trace' = Append(trace, AttemptEvent(attempt, sink[attempt]))
    /\ IF AfterAttempt(attempt, sink[attempt])
       THEN /\ ret' = Some(RetOk)
            /\ rpc' = "returned"
            /\ UNCHANGED <<attempt, last_err>>
       ELSE /\ last_err' = IF sink[attempt] THEN last_err
                           ELSE KeepErr(last_err, attempt)
            /\ attempt' = attempt + 1
            /\ rpc' = "iter"
            /\ UNCHANGED ret
    /\ UNCHANGED <<sink, calls>>
    /\ UNCHANGED <<mainVars, deriveVars, slugVars, textVars>>

\* the iterator is exhausted: Err(last_err.expect(..))
RetryExhausted ==
    /\ rpc = "iter"
    /\ attempt > Len(AttemptDelays)
    /\ IsSome(last_err)
    /\ ret' = Some(RetErr(Unwrap(last_err)))
    /\ rpc' = "returned"
    /\ UNCHANGED <<sink, attempt, last_err, trace, calls>>
    /\ UNCHANGED <<mainVars, deriveVars, slugVars, textVars>>

\* the caller has the result; the call's locals are dropped
RetryReturn ==
    /\ rpc = "returned"
    /\ rpc' = "idle"
    /\ sink' = <<>>
    /\ attempt' = 0
    /\ last_err' = None
    /\ trace' = <<>>
    /\ ret' = None
    /\ UNCHANGED calls
    /\ UNCHANGED <<mainVars, deriveVars, slugVars, textVars>>

NextRetry ==
    \/ RetryCall
    \/ RetryIter
    \/ RetrySend
    \/ RetryExhausted
    \/ RetryReturn

SpecRetry == Init /\ [][NextRetry]_vars

(* ------------------------------------------------------------------ *)
(* check_monitors with send_with_retry run attempt by attempt         *)
(* ------------------------------------------------------------------ *)
\* check_monitors calls send_with_retry(&msg)
SendCall ==
    /\ pc = "send"
    /\ rpc = "idle"
    /\ sink' \in SinkScripts
    /\ attempt' = 1
    /\ rpc' = "iter"
    /\ UNCHANGED <<last_err, trace, ret, calls>>
    /\ UNCHANGED <<mainVars, deriveVars, slugVars, textVars>>

\* send_with_retry has returned to check_monitors: the match on its result
SendReturned ==
    /\ pc = "send"
    /\ rpc = "returned"
    /\ SendResult(Unwrap(ret).ok)
    /\ rpc' = "idle"
    /\ sink' = <<>>
    /\ attempt' = 0
    /\ last_err' = None
    /\ trace' = <<>>
    /\ ret' = None
    /\ UNCHANGED calls
    /\ UNCHANGED <<deriveVars, slugVars, textVars>>

\* tables for the checker to find: svc-a never alerted, alerted an hour ago
\* and still overdue, alerted and pinged since, or alerted and paused; with
\* or without svc-b, forced overdue by a fail call
SeedRecovered ==
    UpsertMonitor(SeedAlerted,
                  PingMonitor("svc-a", DEFAULT_INTERVAL_SECS, Clock0))
WithFailed(st) ==
    UpsertMonitor(st, FailMonitor("svc-b", DEFAULT_INTERVAL_SECS, Clock0))
TermStores ==
    LET seeds == {SeedCreated, SeedAlerted, SeedRecovered, SeedPaused}
    IN  {<<>>} \cup seeds \cup {WithFailed(st) : st \in seeds}

InitTerm ==
    /\ store \in TermStores
    /\ InitRest

\* invocations that are never cut off
NextTerm ==
    \/ CycleStart
    \/ QueryOverdue
    \/ QueryAlerted
    \/ OverdueIter
    \/ OverdueDone
    \/ RecoveryIter
    \/ CycleComplete
    \/ SendCall
    \/ RetryIter
    \/ RetrySend
    \/ RetryExhausted
    \/ SendReturned
    \/ WriteAlertState
    \/ InvocationEnd

\* every await of an invocation completes, with Ok or with Err: a store call
\* answers, an attempt of the sink answers, a sleep ends
FairTerm ==
    /\ WF_vars(QueryOverdue)
    /\ WF_vars(QueryAlerted)
    /\ WF_vars(OverdueIter)
    /\ WF_vars(OverdueDone)
    /\ WF_vars(RecoveryIter)
    /\ WF_vars(CycleComplete)
    /\ WF_vars(SendCall)
    /\ WF_vars(RetryIter)
    /\ WF_vars(RetrySend)
    /\ WF_vars(RetryExhausted)
    /\ WF_vars(SendReturned)
    /\ WF_vars(WriteAlertState)

SpecTerm == InitTerm /\ [][NextTerm]_vars /\ FairTerm

(* ------------------------------------------------------------------ *)
(* MonitorStatus::derive on its own                                   *)
(* ------------------------------------------------------------------ *)
DeriveTimes == {0, Clock0 - 1, Clock0, Clock0 + 1,
                Clock0 + REPEAT_ALERT_INTERVAL_SECS}
PausedInputs == {None, Some(TRUE), Some(FALSE)}

\* derive(&monitor, now_epoch) for some monitor and some time
DeriveCall ==
    /\ \E slug \in Slugs, iv \in IntervalInputs, lp \in {Clock0},
          due \in DeriveTimes, p \in PausedInputs, t \in DeriveTimes :
        LET monitor == [PingMonitor(slug, iv, lp) EXCEPT !.next_due = due,
                                                         !.paused = p]
        IN  /\ derive_in' = Some([monitor |-> monitor, now_epoch |-> t])
            /\ derive_out' = Some(Derive(monitor, t))
    /\ UNCHANGED <<mainVars, retryVars, slugVars, textVars>>

NextDerive == DeriveCall

SpecDerive == Init /\ [][NextDerive]_vars

(* ------------------------------------------------------------------ *)
(* Slug: strings are sequences of Unicode scalar values               *)
(* ------------------------------------------------------------------ *)
MAX_SLUG_LENGTH == 64
Hyphen == 45

\* char::is_ascii_lowercase, char::is_ascii_digit
IsAsciiLowercase(c) == 97 <= c /\ c <= 122
IsAsciiDigit(c) == 48 <= c /\ c <= 57

\* char::len_utf8
LenUtf8(c) ==
    IF c < 128 THEN 1 ELSE IF c < 2048 THEN 2 ELSE IF c < 65536 THEN 3 ELSE 4

\* String::len: the length in bytes
RECURSIVE StrLen(_)
StrLen(s) == IF s = <<>> THEN 0 ELSE LenUtf8(Head(s)) + StrLen(Tail(s))

SlugOk(s) == [ok |-> TRUE, slug |-> s, err |-> "none", len |-> 0]
SlugErr(e, n) == [ok |-> FALSE, slug |-> <<>>, err |-> e, len |-> n]

\* mutant: the hyphen position is tested before the character set
SlugNewHyphenFirst(s) ==
    IF s = <<>> THEN SlugErr("Empty", 0)
    ELSE IF StrLen(s) > MAX_SLUG_LENGTH THEN SlugErr("TooLong", StrLen(s))
    ELSE IF s[1] = Hyphen \/ s[Len(s)] = Hyphen
    THEN SlugErr("InvalidHyphenPosition", 0)
    ELSE IF ~(\A i \in DOMAIN s :
                IsAsciiLowercase(s[i]) \/ IsAsciiDigit(s[i]) \/ s[i] = Hyphen)
    THEN SlugErr("InvalidCharacters", 0)
    ELSE SlugOk(s)

\* Slug::new
SlugNew(s) ==
    IF s = <<>> THEN SlugErr("Empty", 0)
    ELSE IF StrLen(s) > MAX_SLUG_LENGTH THEN SlugErr("TooLong", StrLen(s))
    ELSE IF ~(\A i \in DOMAIN s :
                IsAsciiLowercase(s[i]) \/ IsAsciiDigit(s[i]) \/ s[i] = Hyphen)
    THEN SlugErr("InvalidCharacters", 0)
    ELSE IF s[1] = Hyphen \/ s[Len(s)] = Hyphen
    THEN SlugErr("InvalidHyphenPosition", 0)
    ELSE SlugOk(s)

\* impl TryFrom<String> for Slug
SlugTryFrom(value) == SlugNew(value)

\* mutant: the string form is the Debug rendering, in double quotes
StringFromSlugDebug(slug) == <<34>> \o slug \o <<34>>

\* impl From<Slug> for String: slug.0
StringFromSlug(slug) == slug

\* the characters around the edges of the accepted classes, a space and a
\* two-byte letter
SlugChars == {32, Hyphen, 47, 48, 57, 58, 65, 96, 97, 122, 123, 233}
SlugEnds == {<<>>} \cup {<<c>> : c \in SlugChars}
SlugFillers == {97, Hyphen, 233}
SlugFillLengths == {0, 1, 31, 32, 33, 62, 63, 64, 65}
Repeat(c, n) == [i \in 1..n |-> c]

\* Slug::new(s), and for an accepted s the way through String and back
SlugCall ==
    /\ slug_in = None
    /\ \E h \in SlugEnds, c \in SlugFillers, n \in SlugFillLengths,
          e \in SlugEnds :
        LET s == h \o Repeat(c, n) \o e
            res == SlugNew(s)
        IN  /\ slug_in' = Some(s)
            /\ slug_out' = Some(res)
            /\ slug_back' = IF res.ok
                            THEN Some(SlugTryFrom(StringFromSlug(res.slug)))
                            ELSE None
    /\ UNCHANGED <<mainVars, retryVars, deriveVars, textVars>>

\* the string and the results go out of scope
SlugDrop ==
    /\ IsSome(slug_in)
    /\ slug_in' = None
    /\ slug_out' = None
    /\ slug_back' = None
    /\ UNCHANGED <<mainVars, retryVars, deriveVars, textVars>>

NextSlug ==
    \/ SlugCall
    \/ SlugDrop

SpecSlug == Init /\ [][NextSlug]_vars

(* ------------------------------------------------------------------ *)
(* alerts.rs: the MarkdownV2 escaping of the messages                 *)
(* ------------------------------------------------------------------ *)
Backtick == 96
Backslash == 92

\* _ * [ ] ( ) ~ ` > # + - = | { } . !
MARKDOWN_V2_SPECIAL ==
    {95, 42, 91, 93, 40, 41, 126, 96, 62, 35, 43, 45, 61, 124, 123, 125, 46, 33}

\* the variables of escape_around_code_spans: the index i into chars (from
\* 1), in_code, and the String result
EscapeState(i, in_code, escaped) ==
    [i |-> i, in_code |-> in_code, escaped |-> escaped]

\* mutant: no branch for a backslash, which is copied as any other character
EscapeBodyNoPassThrough(chars, s) ==
    LET ch == chars[s.i]
    IN  IF ch = Backtick
        THEN EscapeState(s.i + 1, ~s.in_code, Append(s.escaped, ch))
        ELSE IF s.in_code
        THEN EscapeState(s.i + 1, s.in_code, Append(s.escaped, ch))
        ELSE EscapeState(s.i + 1, s.in_code,
                         IF ch \in MARKDOWN_V2_SPECIAL
                         THEN s.escaped \o <<Backslash, ch>>
                         ELSE Append(s.escaped, ch))

\* one iteration of the while loop of escape_around_code_spans
EscapeBody(chars, s) ==
    LET ch == chars[s.i]
    IN  IF ch = Backtick
        THEN EscapeState(s.i + 1, ~s.in_code, Append(s.escaped, ch))
        ELSE IF ch = Backslash /\ ~s.in_code
        THEN IF s.i + 1 <= Len(chars)
             THEN EscapeState(s.i + 2, s.in_code,
                              s.escaped \o <<ch, chars[s.i + 1]>>)
             ELSE EscapeState(s.i + 1, s.in_code, Append(s.escaped, ch))
        ELSE IF s.in_code
        THEN EscapeState(s.i + 1, s.in_code, Append(s.escaped, ch))
        ELSE EscapeState(s.i + 1, s.in_code,
                         IF ch \in MARKDOWN_V2_SPECIAL
                         THEN s.escaped \o <<Backslash, ch>>
                         ELSE Append(s.escaped, ch))

\* while i < chars.len() { ... }; result
RECURSIVE EscapeLoop(_, _)
EscapeLoop(chars, s) ==
    IF s.i > Len(chars) THEN s.escaped
    ELSE EscapeLoop(chars, EscapeBody(chars, s))

\* escape_around_code_spans
EscapeAroundCodeSpans(text) ==
    EscapeLoop(text, EscapeState(1, FALSE, <<>>))

\* the raw text of format_overdue: "<warning sign> OVERDUE: `{slug}` |
\* interval: {interval} | last: {last} | {late} late"
FormatOverdueRaw(slug, interval, last, late) ==
    <<9888, 65039>> \o <<32, 79, 86, 69, 82, 68, 85, 69, 58, 32, 96>> \o slug
        \o <<96, 32, 124, 32, 105, 110, 116, 101, 114, 118, 97, 108, 58, 32>>
        \o interval
        \o <<32, 124, 32, 108, 97, 115, 116, 58, 32>> \o last
        \o <<32, 124, 32>> \o late \o <<32, 108, 97, 116, 101>>

\* the raw text of format_repeat: "<warning sign> STILL OVERDUE: `{slug}` |
\* down {downtime}"
FormatRepeatRaw(slug, downtime) ==
    <<9888, 65039>>
        \o <<32, 83, 84, 73, 76, 76, 32, 79, 86, 69, 82, 68, 85, 69, 58, 32, 96>>
        \o slug
        \o <<96, 32, 124, 32, 100, 111, 119, 110, 32>> \o downtime

\* the raw text of format_recovery: "<check mark> RECOVERED: `{slug}`
\* \\(was down {downtime}\\)"
FormatRecoveryRaw(slug, downtime) ==
    <<9989>> \o <<32, 82, 69, 67, 79, 86, 69, 82, 69, 68, 58, 32, 96>> \o slug
        \o <<96, 32, 92, 40, 119, 97, 115, 32, 100, 111, 119, 110, 32>>
        \o downtime \o <<92, 41>>

\* slugs, durations and times as they are put into the messages: "my-job",
\* "a"; "0s", "23m"; "12:03 UTC", "unknown"
MessageSlugs == {<<109, 121, 45, 106, 111, 98>>, <<97>>}
DurationTexts == {<<48, 115>>, <<50, 51, 109>>}
TimeTexts ==
    {<<49, 50, 58, 48, 51, 32, 85, 84, 67>>,
     <<117, 110, 107, 110, 111, 119, 110>>}
MessageTexts ==
    {FormatOverdueRaw(s, d, l, d) :
        s \in MessageSlugs, d \in DurationTexts, l \in TimeTexts}
    \cup {FormatRepeatRaw(s, d) : s \in MessageSlugs, d \in DurationTexts}
    \cup {FormatRecoveryRaw(s, d) : s \in MessageSlugs, d \in DurationTexts}

\* the text of test_escape_around_code_spans_preserves_backtick_content:
\* "hello `my-slug` world.end"
TestText ==
    <<104, 101, 108, 108, 111, 32, 96, 109, 121, 45, 115, 108, 117, 103, 96,
      32, 119, 111, 114, 108, 100, 46, 101, 110, 100>>

\* every text of up to MaxText characters among: backtick, backslash, '.',
\* '-', 'a'
MaxText == 5
TextChars == {Backtick, Backslash, 46, 45, 97}
ShortTexts == UNION {[1..n -> TextChars] : n \in 0..MaxText}

\* escape_around_code_spans(text)
EscapeCall ==
    /\ text_in = None
    /\ \E text \in ShortTexts \cup MessageTexts \cup {TestText} :
        /\ text_in' = Some(text)
        /\ text_out' = Some(EscapeAroundCodeSpans(text))
    /\ UNCHANGED <<mainVars, retryVars, deriveVars, slugVars>>

\* the text and its escaped form go out of scope
EscapeDrop ==
    /\ IsSome(text_in)
    /\ text_in' = None
    /\ text_out' = None
    /\ UNCHANGED <<mainVars, retryVars, deriveVars, slugVars>>

NextEscape ==
    \/ EscapeCall
    \/ EscapeDrop

SpecEscape == Init /\ [][NextEscape]_vars

(* ------------------------------------------------------------------ *)
(* Properties                                                         *)
(* ------------------------------------------------------------------ *)
Events == DOMAIN log
SendsFor(s, k) == {i \in Events : log[i].ev = "send" /\ log[i].slug = s
                                   /\ log[i].kind = k}
WritesFor(s) == {i \in Events : log[i].ev = "write" /\ log[i].slug = s}
StoredAlert(st, s) ==
    [last |-> ItemOf(st, s).last_alerted_at, count |-> ItemOf(st, s).alert_count]
NoAlert == [last |-> None, count |-> None]

\* C1: a monitor whose send_with_retry returned an error (first alert,
\* repeat or recovery) gets no update_alert_state and no clear_alert_state
\* in that invocation of check_monitors.
C1_FailedSendNoWrite ==
    \A i \in Events :
        (log[i].ev = "send" /\ ~log[i].ok) => WritesFor(log[i].slug) = {}

\* an invocation returned Ok after a failed send for one monitor and an
\* alert-state write for another
C1_Witness ==
    /\ pc = "done"
    /\ result = "ok"
    /\ \E i, j \in Events :
        /\ log[i].ev = "send" /\ ~log[i].ok
        /\ log[j].ev = "write" /\ log[j].slug # log[i].slug

\* C2: when the monitor read by the cycle is overdue, not paused and has no
\* last_alerted_at, and the overdue message is delivered, the write stores
\* exactly alert_count = 1 and last_alerted_at = the cycle's now.
C2_FirstAlertStored ==
    [][(pc = "write" /\ pc' = "overdue_loop"
            /\ Unwrap(cur).last_alerted_at = None)
        => /\ Derive(Unwrap(cur), now) = "Overdue"
           /\ StoredAlert(store', Unwrap(cur).slug)
                = [last |-> Some(now), count |-> Some(1)]]_vars

C2_Witness ==
    \E i \in Events :
        /\ log[i].ev = "write" /\ log[i].kind = "first"
        /\ log[i].slug \in DOMAIN store
        /\ Deserializable(store[log[i].slug])
        /\ StoredAlert(store, log[i].slug)
             = [last |-> Some(now), count |-> Some(1)]

\* C3: for a non-paused overdue monitor with last_alerted_at present the
\* cycle attempts a repeat iff now - last_alerted_at >= 3600; below 3600 the
\* cycle sends nothing and writes nothing for it; a delivered repeat stores
\* last_alerted_at = now and alert_count = the alert_count read + 1.
C3_Repeating(m, now_epoch) ==
    Derive(m, now_epoch) # "Paused" /\ IsSome(m.last_alerted_at)

C3_RepeatThreshold ==
    [][/\ \A s \in todo :
            (pc = "overdue_loop" /\ todo' = todo \ {s}) =>
            LET m == overdue[s]
            IN  C3_Repeating(m, now) =>
                  IF now - Unwrap(m.last_alerted_at) >= 3600
                  THEN pc' = "send" /\ kind' = "repeat" /\ cur' = Some(m)
                  ELSE pc' = "overdue_loop" /\ UNCHANGED <<store, log>>
       /\ \A i \in DOMAIN log' :
            LET s == log'[i].slug
            IN  (s \in DOMAIN overdue' /\ C3_Repeating(overdue'[s], now'))
                    => now' - Unwrap(overdue'[s].last_alerted_at) >= 3600
       /\ (pc = "write" /\ pc' = "overdue_loop"
                /\ IsSome(Unwrap(cur).last_alerted_at)) =>
            StoredAlert(store', Unwrap(cur).slug)
              = [last |-> Some(now),
                 count |-> Some(UnwrapOr(Unwrap(cur).alert_count, 0) + 1)]]_vars

\* a repeat was delivered exactly 3600 s after the recorded alert and the
\* row now holds the second alert
C3_Witness ==
    \E i \in Events :
        LET s == log[i].slug
        IN  /\ log[i].ev = "write" /\ log[i].kind = "repeat"
            /\ s \in DOMAIN overdue
            /\ now - Unwrap(overdue[s].last_alerted_at) = 3600
            /\ StoredAlert(store, s) = [last |-> Some(now), count |-> Some(2)]

\* C4: every monitor of the alerted list that the first loop did not mark
\* overdue and whose status is not Paused gets a recovery attempt when the
\* second loop reaches it, and once the recovery is delivered and written
\* the row has neither last_alerted_at nor alert_count.
C4_Eligible(s) ==
    /\ s \notin overdue_slugs
    /\ Derive(alerted[s], now) # "Paused"

C4_Recovery ==
    pc = "recovery_loop" =>
        \A s \in (DOMAIN alerted) \ todo :
            C4_Eligible(s) =>
                /\ SendsFor(s, "recovery") # {}
                /\ \A i \in SendsFor(s, "recovery") :
                     log[i].ok => StoredAlert(store, s) = NoAlert

C4_Witness ==
    /\ pc = "recovery_loop"
    /\ \E s \in (DOMAIN alerted) \ todo :
        /\ C4_Eligible(s)
        /\ \E i \in SendsFor(s, "recovery") : log[i].ok
        /\ s \in DOMAIN store
        /\ Deserializable(store[s])
        /\ StoredAlert(store, s) = NoAlert

\* C5: a monitor whose paused flag is true during the whole invocation gets
\* no overdue, repeat or recovery message and no alert-state write from it.
C5_PausedUntouched ==
    \A s \in Slugs \ unpaused :
        /\ \A i \in Events : log[i].slug # s
        /\ pc \in {"send", "write"} => Unwrap(cur).slug # s

\* an invocation returned Ok that had read a paused monitor both as overdue
\* and as alerted
C5_Witness ==
    /\ pc = "done"
    /\ result = "ok"
    /\ \E s \in Slugs \ unpaused :
        /\ s \in DOMAIN overdue
        /\ s \in DOMAIN alerted
        /\ IsSome(alerted[s].alert_count)

\* C6: while the monitor is not deleted, every change of its stored alert
\* state is absent -> alert_count 1, alert_count k -> k + 1, or
\* present -> absent.
C6_AlertTransitions ==
    [][\A s \in Slugs :
        LET a == StoredAlert(store, s)
            b == StoredAlert(store', s)
        IN  \/ a = b
            \/ a = NoAlert /\ IsSome(b.last) /\ b.count = Some(1)
            \/ /\ IsSome(a.last) /\ IsSome(a.count)
               /\ IsSome(b.last) /\ b.count = Some(Unwrap(a.count) + 1)
            \/ IsSome(a.last) /\ b = NoAlert]_vars

C6_Witness ==
    \E s \in DOMAIN store :
        /\ store[s].alert_count = Some(2)
        /\ Unwrap(store[s].last_alerted_at) > Unwrap(store[s].created_at)

\* C7: within one invocation a monitor gets at most one send_with_retry
\* call and at most one alert-state write, both of the same kind.
C7_OneTransitionPerCycle ==
    \A s \in Slugs :
        LET sends == {i \in Events : log[i].ev = "send" /\ log[i].slug = s}
            all == {i \in Events : log[i].slug = s}
        IN  /\ Cardinality(sends) <= 1
            /\ Cardinality(WritesFor(s)) <= 1
            /\ \A i, j \in all : log[i].kind = log[j].kind
            /\ (pc = "send" /\ Unwrap(cur).slug = s) => all = {}
            /\ (pc = "write" /\ Unwrap(cur).slug = s) => WritesFor(s) = {}

\* a monitor read both as overdue and as alerted got its repeat alert, and
\* the invocation went through the second loop and returned Ok
C7_Witness ==
    /\ pc = "done"
    /\ result = "ok"
    /\ \E s \in DOMAIN alerted :
        /\ s \in overdue_slugs
        /\ \E i \in WritesFor(s) : log[i].kind = "repeat"

\* C8: two alerts delivered for a monitor with no recovery
\* delivered between them are at least 3600 s of cycle time apart.
C8_DeliveredGap ==
    \A s \in Slugs :
        Len(delivered[s]) = 2 => delivered[s][2] - delivered[s][1] >= 3600

\* C9: when an invocation has ended, however it ended, every
\* delivered message has its alert-state write.
C9_DeliveryAlwaysPaired ==
    pc = "done" =>
        \A i \in Events :
            (log[i].ev = "send" /\ log[i].ok) => WritesFor(log[i].slug) # {}

\* C10: check_monitors never returns a delivery error, and an invocation
\* that returns Ok has iterated both lists to the end: every non-paused
\* overdue monitor is marked and, if due for a first or repeat alert, was
\* sent one, and every recovered monitor was sent its recovery, whatever
\* sends failed on the way.
C10_DeliveryFailureContinues ==
    /\ result # "telegram_err"
    /\ (pc = "done" /\ result = "ok") =>
        /\ todo = {}
        /\ \A s \in DOMAIN overdue :
            LET m == overdue[s]
            IN  Derive(m, now) # "Paused" =>
                  /\ s \in overdue_slugs
                  /\ m.last_alerted_at = None => SendsFor(s, "first") # {}
                  /\ (IsSome(m.last_alerted_at)
                        /\ now - Unwrap(m.last_alerted_at) >= 3600)
                       => SendsFor(s, "repeat") # {}
        /\ \A s \in DOMAIN alerted :
            C4_Eligible(s) => SendsFor(s, "recovery") # {}

\* an invocation returned Ok in which a send failed and a message for
\* another monitor was sent after it
C10_Witness ==
    /\ pc = "done"
    /\ result = "ok"
    /\ \E i, j \in Events :
        /\ i < j
        /\ log[i].ev = "send" /\ ~log[i].ok
        /\ log[j].ev = "send" /\ log[j].slug # log[i].slug

\* C11: a store call that fails inside check_monitors (query_overdue,
\* query_alerted, update_alert_state, clear_alert_state) is the last thing
\* the invocation does: check_monitors has returned the store error, and no
\* send, no write and no iteration follows it; and check_monitors returns
\* the store error only this way.
C11_StoreFailureReturns ==
    /\ \A i \in Events :
        log[i].ev = "store_err" =>
            /\ i = Len(log)
            /\ pc = "done"
            /\ result = "core_err"
    /\ result = "core_err" =>
        /\ log # <<>>
        /\ log[Len(log)].ev = "store_err"

\* an alert-state write failed after a delivery while another monitor was
\* still waiting in the loop; it was left unprocessed
C11_Witness ==
    /\ pc = "done"
    /\ result = "core_err"
    /\ log[Len(log)].kind \in {"first", "repeat", "recovery"}
    /\ \E s \in todo : \A i \in Events : log[i].slug # s

Attempts == {i \in DOMAIN trace : trace[i].ev = "attempt"}
Sleeps == {i \in DOMAIN trace : trace[i].ev = "sleep"}

C13_Waits == <<500, 2000, 5000>>

C13_FirstSuccessReturns ==
    /\ Len(trace) <= 7
    /\ \A i \in DOMAIN trace :
        /\ IF i % 2 = 1
           THEN trace[i] = AttemptEvent((i + 1) \div 2, trace[i].ok)
           ELSE trace[i] = SleepEvent(C13_Waits[i \div 2])
        /\ (trace[i].ev = "attempt" /\ trace[i].ok) =>
            /\ i = Len(trace)
            /\ rpc = "returned"
            /\ ret = Some(RetOk)
            /\ Cardinality(Attempts) =
                 Cardinality({j \in Attempts : ~trace[j].ok}) + 1
    /\ rpc = "returned" => trace[Len(trace)].ev = "attempt"

\* a sink that failed twice and then answered: three attempts, two sleeps
C13_Witness ==
    /\ rpc = "returned"
    /\ ret = Some(RetOk)
    /\ trace = <<AttemptEvent(1, FALSE), SleepEvent(500),
                 AttemptEvent(2, FALSE), SleepEvent(2000),
                 AttemptEvent(3, TRUE)>>

\* C14: derive returns Paused whenever paused is Some(true), whatever
\* next_due and now are; otherwise (paused None or Some(false)) it returns
\* Overdue iff next_due < now and Ok iff next_due >= now.
C14_StatusPrecedence ==
    IsSome(derive_out) =>
        LET monitor == Unwrap(derive_in).monitor
            t == Unwrap(derive_in).now_epoch
            status == Unwrap(derive_out)
        IN  /\ monitor.paused = Some(TRUE) => status = "Paused"
            /\ monitor.paused # Some(TRUE) =>
                /\ status = "Overdue" <=> monitor.next_due < t
                /\ status = "Ok" <=> monitor.next_due >= t

\* derive was applied to a paused monitor whose next_due is in the past
C14_Witness ==
    /\ derive_out = Some("Paused")
    /\ Unwrap(derive_in).monitor.next_due < Unwrap(derive_in).now_epoch

\* C15: the Monitor a ping builds has last_ping = now and
\* next_due = last_ping + interval_secs; the one a fail call builds has
\* last_ping = now, next_due = 0 and the interval_secs of the existing row, or
\* 300 when there is none; and the upsert stores these values.
C15_IngestionValues ==
    [][/\ \A r \in inflight' \ inflight :
            LET m == r.monitor
            IN  /\ m.last_ping = clock
                /\ r.handler = "heartbeat" =>
                     m.next_due = m.last_ping + m.interval_secs
                /\ r.handler = "fail" =>
                     /\ m.next_due = 0
                     /\ m.interval_secs =
                          IF m.slug \in DOMAIN store
                          THEN Unwrap(store[m.slug].interval_secs)
                          ELSE 300
       /\ \A r \in inflight \ inflight' :
            store' # store =>
                LET m == r.monitor
                    row == store'[m.slug]
                IN  /\ row.last_ping = Some(m.last_ping)
                    /\ row.next_due = Some(m.next_due)
                    /\ row.interval_secs = Some(m.interval_secs)]_vars

\* a fail call on a monitor pinged before with its own interval: next_due
\* is 0 and the interval is kept
C15_Witness ==
    \E s \in DOMAIN store :
        /\ store[s].next_due = Some(0)
        /\ store[s].interval_secs = Some(3599)
        /\ store[s].last_ping = Some(clock)

\* C16: an upsert on a row that has created_at leaves it, an upsert that
\* creates the row writes its own; interval_secs, last_ping, next_due,
\* check_partition and expires_at are those of the upsert just done.
C16_CreatedAtPreserved ==
    [][\A r \in inflight \ inflight' :
        store' # store =>
            LET m == r.monitor
                old == ItemOf(store, m.slug)
                row == store'[m.slug]
            IN  /\ row.created_at = IF IsSome(old.created_at)
                                    THEN old.created_at
                                    ELSE Some(m.created_at)
                /\ row.interval_secs = Some(m.interval_secs)
                /\ row.last_ping = Some(m.last_ping)
                /\ row.next_due = Some(m.next_due)
                /\ row.check_partition = Some(m.check_partition)
                /\ row.expires_at = Some(m.expires_at)]_vars

\* a row upserted again after the hour it was created in
C16_Witness ==
    \E s \in DOMAIN store :
        /\ Unwrap(store[s].created_at) < Unwrap(store[s].last_ping)
        /\ store[s].last_ping = Some(clock)
        /\ store[s].expires_at = Some(clock + 7776000)

\* C17: a ping or a fail call changes nothing of last_alerted_at,
\* alert_count and paused: building the Monitor leaves the table alone and
\* the upsert leaves the three attributes as they were (absent on a row it
\* creates).
C17_IngestionKeepsAlertState ==
    [][/\ inflight' \ inflight # {} => store' = store
       /\ \A r \in inflight \ inflight' :
            LET old == ItemOf(store, r.monitor.slug)
                row == ItemOf(store', r.monitor.slug)
            IN  /\ row.last_alerted_at = old.last_alerted_at
                /\ row.alert_count = old.alert_count
                /\ row.paused = old.paused]_vars

\* a paused monitor with an active alert was upserted after the alert
C17_Witness ==
    \E s \in DOMAIN store :
        /\ store[s].paused = Some(TRUE)
        /\ store[s].alert_count = Some(1)
        /\ IsSome(store[s].last_alerted_at)
        /\ Unwrap(store[s].last_ping) > Unwrap(store[s].last_alerted_at)

\* C18: every row an upsert has written holds the fields of one upsert:
\* next_due is last_ping + interval_secs or 0, and expires_at is
\* last_ping + TTL, also while another upsert for the slug is under way.
C18_RowOfOneUpsert ==
    \A s \in DOMAIN store :
        IsSome(store[s].last_ping) =>
            LET row == ToMonitor(s, store[s])
            IN  /\ \/ row.next_due = 0
                   \/ row.next_due = row.last_ping + row.interval_secs
                /\ row.expires_at = row.last_ping + 7776000

\* a fail call that found no interval of 3599 is still before its upsert
\* while the row already holds the write of a ping begun at the same time
C18_Witness ==
    \E r \in inflight :
        LET s == r.monitor.slug
        IN  /\ r.handler = "fail"
            /\ s \in DOMAIN store
            /\ store[s].last_ping = Some(r.monitor.last_ping)
            /\ store[s].interval_secs = Some(3599)
            /\ r.monitor.interval_secs = 300

\* C19: an upsert applied again with the same Monitor leaves the table as
\* the first application left it, and an upsert on a complete row never
\* changes created_at, last_alerted_at, alert_count or paused.
C19_UpsertIdempotent ==
    [][\A r \in inflight \ inflight' :
        /\ store' # store => UpsertMonitor(store', r.monitor) = store'
        /\ (r.monitor.slug \in DOMAIN store
                /\ Deserializable(store[r.monitor.slug])) =>
            LET old == store[r.monitor.slug]
                row == store'[r.monitor.slug]
            IN  /\ row.created_at = old.created_at
                /\ row.last_alerted_at = old.last_alerted_at
                /\ row.alert_count = old.alert_count
                /\ row.paused = old.paused]_vars

\* the second fail call this hour on a monitor with an active alert
C19_Witness ==
    /\ inflight = {}
    /\ envSteps >= 2
    /\ \E s \in DOMAIN store :
        /\ store[s].next_due = Some(0)
        /\ store[s].last_ping = Some(clock)
        /\ Unwrap(store[s].created_at) < clock
        /\ store[s].alert_count = Some(1)

\* C20: when delete, pause or unpause finds no monitor for the slug (the
\* store call returns CoreError::NotFound), the response is HTTP 404.
C20_NotFoundIs404 ==
    (IsSome(response) /\ Unwrap(response).err = "NotFound")
        => Unwrap(response).status = 404

C23_Overdue(s) ==
    /\ s \in DOMAIN store
    /\ Deserializable(store[s])
    /\ Derive(ToMonitor(s, store[s]), clock) = "Overdue"

\* C23: under a trigger that keeps firing, a store that answers and a sink
\* that accepts a message again and again, a monitor that is overdue and not
\* paused gets its last_alerted_at set, unless it stops being overdue first;
\* failed deliveries on the way only postpone it.
C23_EventuallyAlerted ==
    \A s \in Slugs :
        C23_Overdue(s) ~>
            (IsSome(ItemOf(store, s).last_alerted_at) \/ ~C23_Overdue(s))

\* the first alert of a monitor was delivered and written by an invocation
\* an hour after the fail call that made it overdue
C23_Witness ==
    /\ pc = "done"
    /\ result = "ok"
    /\ \E s \in Slugs :
        /\ C23_Overdue(s)
        /\ store[s].next_due = Some(0)
        /\ Unwrap(store[s].last_ping) < now
        /\ StoredAlert(store, s) = [last |-> Some(now), count |-> Some(1)]
        /\ \E i \in WritesFor(s) : log[i].kind = "first"

\* the row of s is complete, holds an alert, and is neither paused nor
\* overdue at the present time
C24_Recovered(s) ==
    /\ s \in DOMAIN store
    /\ Deserializable(store[s])
    /\ IsSome(store[s].last_alerted_at)
    /\ Derive(ToMonitor(s, store[s]), clock) = "Ok"

\* C24: under a trigger that keeps firing, a store that answers and a sink
\* that accepts a message again and again, a monitor with an active alert
\* that was pinged has its alert fields cleared, unless it goes overdue
\* again first; and a recovery is delivered for a monitor only after an
\* alert delivered for it since its last delivered recovery.
C24_RecoveryOncePerAlert ==
    /\ \A s \in Slugs :
        C24_Recovered(s) ~>
            (StoredAlert(store, s) = NoAlert \/ ~C24_Recovered(s))
    /\ [][(pc = "send" /\ kind = "recovery" /\ pc' = "write")
            => delivered[Unwrap(cur).slug] # <<>>]_vars

\* the invocation has returned Ok and every message it sent for s was
\* delivered
C22_CleanCycle(s) ==
    /\ pc = "done"
    /\ result = "ok"
    /\ \A i \in Events : log[i].slug = s => log[i].ok

\* the events of the invocation for s are one delivered message of kind k
\* and its alert-state write
C22_OneMessage(s, k) ==
    /\ Cardinality(SendsFor(s, k)) = 1
    /\ Cardinality(WritesFor(s)) = 1
    /\ \A i \in Events : log[i].slug = s => log[i].kind = k

\* C22: a ping that creates the monitor leaves it Ok with no alert fields;
\* an invocation that reads it overdue with no alert and whose sends are
\* delivered sends exactly one first alert and stores alert_count = 1 with
\* last_alerted_at = now; a later ping makes it Ok again and leaves the
\* alert fields; an invocation that reads it in the alerted list and not in
\* the overdue list sends exactly one recovery and clears both fields; an
\* invocation that reads it in neither list sends nothing for it.
C22_EndToEnd ==
    [][/\ \A r \in inflight \ inflight' :
            (r.handler = "heartbeat" /\ store' # store) =>
                LET s == r.monitor.slug
                IN  /\ Derive(ToMonitor(s, store'[s]), clock) = "Ok"
                    /\ StoredAlert(store', s) = StoredAlert(store, s)
                    /\ s \notin DOMAIN store =>
                         /\ StoredAlert(store', s) = NoAlert
                         /\ store'[s].created_at = Some(clock)
       /\ \A s \in Slugs :
            C22_CleanCycle(s) =>
                /\ (s \in DOMAIN overdue
                        /\ Derive(overdue[s], now) = "Overdue"
                        /\ overdue[s].last_alerted_at = None) =>
                     /\ C22_OneMessage(s, "first")
                     /\ StoredAlert(store, s) =
                          [last |-> Some(now), count |-> Some(1)]
                /\ (s \notin DOMAIN overdue /\ s \in DOMAIN alerted
                        /\ Derive(alerted[s], now) = "Ok") =>
                     /\ C22_OneMessage(s, "recovery")
                     /\ StoredAlert(store, s) = NoAlert
                /\ (s \notin DOMAIN overdue /\ s \notin DOMAIN alerted) =>
                     \A i \in Events : log[i].slug # s]_vars

\* the monitor created by a first ping was alerted once an hour later, was
\* pinged again, and the invocation after that ping has delivered its
\* recovery and cleared the alert fields
C22_Witness ==
    /\ C22_CleanCycle("svc-a")
    /\ "svc-a" \in DOMAIN alerted
    /\ "svc-a" \notin DOMAIN overdue
    /\ alerted["svc-a"].created_at = Clock0
    /\ alerted["svc-a"].alert_count = Some(1)
    /\ Unwrap(alerted["svc-a"].last_alerted_at) > Clock0
    /\ alerted["svc-a"].last_ping >= Unwrap(alerted["svc-a"].last_alerted_at)
    /\ alerted["svc-a"].next_due > now
    /\ C22_OneMessage("svc-a", "recovery")
    /\ StoredAlert(store, "svc-a") = NoAlert

\* C25: a successful query_overdue(now) returns exactly the rows with
\* check_partition = "CHECK" and next_due < now, as they are stored, paused
\* or not: a row with next_due = now is not returned, every returned
\* monitor derives to Overdue or Paused, and every stored monitor that
\* derives to Overdue is returned.
C25_QueryOverdueExact ==
    [][(pc = "query_overdue" /\ pc' = "query_alerted") =>
        /\ \A s \in DOMAIN store :
            s \in DOMAIN overdue' <=>
                /\ store[s].check_partition = Some("CHECK")
                /\ IsSome(store[s].next_due)
                /\ Unwrap(store[s].next_due) < now
        /\ \A s \in DOMAIN overdue' :
            /\ s \in DOMAIN store
            /\ overdue'[s] = ToMonitor(s, store[s])
            /\ Derive(overdue'[s], now) \in {"Overdue", "Paused"}
        /\ \A s \in DOMAIN store :
            /\ store[s].next_due = Some(now) => s \notin DOMAIN overdue'
            /\ (Deserializable(store[s])
                    /\ Derive(ToMonitor(s, store[s]), now) = "Overdue")
                 => s \in DOMAIN overdue']_vars

\* the query has returned one monitor and left out a paused one whose
\* next_due is the very second of the query
C25_Witness ==
    /\ pc = "query_alerted"
    /\ \E s \in DOMAIN overdue :
        /\ s \in DOMAIN store
        /\ overdue[s] = ToMonitor(s, store[s])
    /\ \E s \in DOMAIN store :
        /\ store[s].next_due = Some(now)
        /\ store[s].paused = Some(TRUE)
        /\ s \notin DOMAIN overdue

C26_InRange(secs) == 30 <= secs /\ secs <= 31536000

\* C26: every interval_secs in the table, and in every Monitor a handler is
\* about to upsert, is within [30, 31536000]; a request answered with
\* InvalidInterval has written nothing and upserts nothing; and the
\* interval of a ping or fail call without ?interval is that of the
\* existing row, or 300 when there is none.
C26_IntervalBounded ==
    [][/\ \A s \in DOMAIN store' :
            IsSome(store'[s].interval_secs) =>
                C26_InRange(Unwrap(store'[s].interval_secs))
       /\ \A r \in inflight' : C26_InRange(r.monitor.interval_secs)
       /\ (response' # response
                /\ Unwrap(response').err = "InvalidInterval") =>
            /\ Unwrap(response').status = 400
            /\ UNCHANGED <<store, inflight>>
       /\ \A r \in inflight' \ inflight :
            ~r.with_interval =>
                r.monitor.interval_secs =
                    IF r.monitor.slug \in DOMAIN store
                    THEN Unwrap(store[r.monitor.slug].interval_secs)
                    ELSE 300]_vars

\* a ping with 365 days and 1 ns was refused after one with 365 days was
\* stored, and a fail call has taken the stored interval over
C26_Witness ==
    /\ response = Some(ErrorResponse("InvalidInterval"))
    /\ \E r \in inflight :
        /\ r.handler = "fail"
        /\ r.monitor.interval_secs = MAX_INTERVAL
        /\ r.monitor.slug \in DOMAIN store
        /\ store[r.monitor.slug].interval_secs = Some(MAX_INTERVAL)

\* C27: the upsert of a ping without ?interval stores the interval_secs the
\* row held immediately before that write, whatever other pings to the
\* slug did in between, and 300 when there was no row.
C27_IntervalPreserved ==
    [][\A r \in inflight \ inflight' :
        (r.handler = "heartbeat" /\ ~r.with_interval /\ store' # store) =>
            LET s == r.monitor.slug
            IN  store'[s].interval_secs =
                    IF s \in DOMAIN store /\ IsSome(store[s].interval_secs)
                    THEN store[s].interval_secs
                    ELSE Some(300)]_vars

C28_Allowed(c) ==
    c \in (97..122) \cup (48..57) \cup {45}

\* C28: Slug::new returns Empty for the empty string, else TooLong(len) when
\* len (String::len) exceeds 64, else InvalidCharacters when some character
\* is not a lowercase ASCII letter, an ASCII digit or a hyphen, else
\* InvalidHyphenPosition when the first or the last character is a hyphen,
\* else Ok with the string as given; the first rule broken is reported.
C28_SlugValidation ==
    IsSome(slug_out) =>
        LET s == Unwrap(slug_in)
            res == Unwrap(slug_out)
            empty == Len(s) = 0
            long == StrLen(s) > 64
            chars == \E i \in 1..Len(s) : ~C28_Allowed(s[i])
            edge == s[1] = 45 \/ s[Len(s)] = 45
        IN  /\ empty => res = SlugErr("Empty", 0)
            /\ (~empty /\ long) => res = SlugErr("TooLong", StrLen(s))
            /\ (~empty /\ ~long /\ chars) =>
                 res = SlugErr("InvalidCharacters", 0)
            /\ (~empty /\ ~long /\ ~chars /\ edge) =>
                 res = SlugErr("InvalidHyphenPosition", 0)
            /\ (~empty /\ ~long /\ ~chars /\ ~edge) => res = SlugOk(s)

\* a string of 64 allowed characters, an inner hyphen among them, was
\* accepted
C28_Witness ==
    /\ IsSome(slug_out)
    /\ Unwrap(slug_out).ok
    /\ Len(Unwrap(slug_in)) = 64
    /\ \E i \in 2..63 : Unwrap(slug_in)[i] = 45

\* C29: for every Slug that Slug::new returns, String::from followed by
\* Slug::try_from succeeds and gives an equal Slug; and every Slug value,
\* from Slug::new or from try_from, holds a string of 1 to 64 allowed
\* characters with no hyphen at either end.
C29_SlugRoundTrip ==
    LET valid(v) == /\ v # <<>>
                    /\ StrLen(v) <= 64
                    /\ \A i \in 1..Len(v) : C28_Allowed(v[i])
                    /\ v[1] # 45 /\ v[Len(v)] # 45
    IN  /\ (IsSome(slug_out) /\ Unwrap(slug_out).ok) =>
            /\ IsSome(slug_back)
            /\ Unwrap(slug_back).ok
            /\ Unwrap(slug_back).slug = Unwrap(slug_out).slug
            /\ valid(Unwrap(slug_out).slug)
        /\ (IsSome(slug_back) /\ Unwrap(slug_back).ok) =>
            valid(Unwrap(slug_back).slug)

\* a slug with inner hyphens came back from its String form
C29_Witness ==
    /\ IsSome(slug_back)
    /\ Unwrap(slug_back) = Unwrap(slug_out)
    /\ Unwrap(slug_back).ok
    /\ Len(Unwrap(slug_back).slug) > 2
    /\ Unwrap(slug_back).slug[2] = 45

\* C30: escape_around_code_spans scans left to right, toggling in-code at
\* each backtick that is not the character after a backslash outside a code
\* span.  Its output is the input with one backslash put before every
\* reserved character (_ * [ ] ( ) ~ > # + - = | { } . !) that is outside a
\* code span and is not the character after such a backslash; characters
\* inside a code span, a backslash outside a code span and the character
\* after it are copied as they are.
C30_Reserved ==
    {95, 42, 91, 93, 40, 41, 126, 62, 35, 43, 45, 61, 124, 123, 125, 46, 33}

\* the left-to-right scan of the claim after the character ch: pending says
\* that ch is a backslash outside a code span which carries the next
\* character with it
C30_After(ch, s) ==
    IF s.pending
    THEN [s EXCEPT !.pending = FALSE, !.out = Append(@, ch)]
    ELSE IF ch = Backtick
    THEN [s EXCEPT !.in_code = ~@, !.out = Append(@, ch)]
    ELSE IF s.in_code
    THEN [s EXCEPT !.out = Append(@, ch)]
    ELSE IF ch = Backslash
    THEN [s EXCEPT !.pending = TRUE, !.out = Append(@, ch)]
    ELSE IF ch \in C30_Reserved
    THEN [s EXCEPT !.out = @ \o <<Backslash, ch>>]
    ELSE [s EXCEPT !.out = Append(@, ch)]

\* s.seen characters of the text have been scanned
RECURSIVE C30_Scan(_, _)
C30_Scan(text, s) ==
    IF s.seen = Len(text) THEN s.out
    ELSE C30_Scan(text, [C30_After(text[s.seen + 1], s) EXCEPT !.seen = @ + 1])

C30_Expected(text) ==
    C30_Scan(text, [seen |-> 0, in_code |-> FALSE, pending |-> FALSE,
                    out |-> <<>>])

C30_EscapeOutsideCode ==
    IsSome(text_in) => Unwrap(text_out) = C30_Expected(Unwrap(text_in))

\* the text \..`- came out as \.\.`- : the backslash and the dot after it
\* copied, the second dot escaped, the hyphen in the code span copied
C30_Witness ==
    /\ text_in = Some(<<Backslash, 46, 46, Backtick, 45>>)
    /\ text_out = Some(<<Backslash, 46, Backslash, 46, Backtick, 45>>)

\* C31: whenever a cycle sends a recovery for a monitor, the record the
\* cycle read for it has next_due >= now, whatever ping, fail, pause and
\* unpause calls come between query_overdue and query_alerted.
C31_RecoveryOnlyWhenDue ==
    (pc = "send" /\ kind = "recovery") => Unwrap(cur).next_due >= now

\* C32: every invocation of check_monitors ends: from any point of it the
\* cycle reaches "check cycle complete" (Ok) or the return of a store error,
\* also when every attempt of every send_with_retry fails.
C32_CycleTerminates ==
    (pc \notin {"idle", "done"})
        ~> (pc = "done" /\ result \in {"ok", "core_err"})

\* an invocation returned Ok after send_with_retry failed on all its
\* attempts for two monitors
C32_Witness ==
    /\ pc = "done"
    /\ result = "ok"
    /\ \E i, j \in Events :
        /\ log[i].ev = "send" /\ ~log[i].ok
        /\ log[j].ev = "send" /\ ~log[j].ok
        /\ log[i].slug # log[j].slug
    /\ \A i \in Events : log[i].ev = "send" => ~log[i].ok

\* C33: in every table state every row has last_alerted_at if and only if
\* it has alert_count, and an alert_count that is present is at least 1; so
\* a record the cycle read without last_alerted_at has no alert_count, and
\* the first-alert branch passes 0 + 1 = 1 to update_alert_state.
C33_Paired(last, count) ==
    /\ IsSome(last) <=> IsSome(count)
    /\ IsSome(count) => Unwrap(count) >= 1

C33_AlertFieldsPaired ==
    /\ \A s \in DOMAIN store :
        C33_Paired(store[s].last_alerted_at, store[s].alert_count)
    /\ \A s \in DOMAIN overdue :
        C33_Paired(overdue[s].last_alerted_at, overdue[s].alert_count)
    /\ (pc \in {"send", "write"} /\ kind = "first")
        => /\ Unwrap(cur).alert_count = None
           /\ NextAlertCount(Unwrap(cur)) = 1

\* in one invocation a repeat alert took one row to alert_count = 2 and a
\* first alert took another to alert_count = 1
C33_Witness ==
    \E i, j \in Events :
        /\ log[i].ev = "write" /\ log[i].kind = "repeat" /\ log[i].count = 2
        /\ log[j].ev = "write" /\ log[j].kind = "first" /\ log[j].count = 1
        /\ StoredAlert(store, log[i].slug) = [last |-> Some(now), count |-> Some(2)]
        /\ StoredAlert(store, log[j].slug) = [last |-> Some(now), count |-> Some(1)]

\* C34: whatever deletion comes between a cycle's reads and its writes,
\* every row of the table holds all required Monitor fields (interval_secs,
\* last_ping, next_due, check_partition, created_at, expires_at):
\* update_alert_state and clear_alert_state never leave a row without them.
C34_RowsComplete ==
    \A s \in DOMAIN store : Deserializable(store[s])

\* C35: the status in the response of heartbeat_handler and of fail_handler
\* is MonitorStatus::derive of the row as it is stored right after the
\* handler's upsert, at the handler's now; a ping or a fail call on a paused
\* monitor reports Paused.
C35_StatusOfStoredRow ==
    [][(inflight' # inflight /\ inflight' \subseteq inflight
            /\ Unwrap(response').status = 200)
        => LET rsp == Unwrap(response')
               row == store'[rsp.slug]
           IN  rsp.monitor_status
                   = Derive(ToMonitor(rsp.slug, row), Unwrap(row.last_ping))]_vars

\* C36: the downtime in a repeat alert, max(0, now - next_due), and in a
\* recovery, max(0, now - last_alerted_at), is never negative and never more
\* than now - last_ping of the monitor the cycle read, also for a monitor
\* forced overdue by a fail call (next_due = 0).
C36_Bounded(secs, monitor) == 0 <= secs /\ secs <= now - monitor.last_ping

C36_DowntimeBounded ==
    \A i \in Events :
        /\ (log[i].ev = "send" /\ log[i].kind = "repeat")
            => C36_Bounded(log[i].secs, overdue[log[i].slug])
        /\ (log[i].ev = "send" /\ log[i].kind = "recovery")
            => C36_Bounded(log[i].secs, alerted[log[i].slug])

====
